---------------------------- MODULE Spec2Model ----------------------------
(***************************************************************************)
(* CEP -> city -> temperature pipeline.                                    *)
(*                                                                         *)
(* Two services: service-a (the edge validator) and service-b (the lookup  *)
(* orchestrator).  Each exists in two builds in the repository:            *)
(*   "cmd"  : cmd/main.go + internal/handlers (+ internal/client for       *)
(*            service-a, + the WeatherService for service-b)               *)
(*   "main" : the single-file main.go                                      *)
(* The external collaborators (ViaCEP, WeatherAPI, the network between     *)
(* the two services) are the environment: their answers are chosen         *)
(* nondeterministically when a handler resumes from a blocking call.       *)
(*                                                                         *)
(* Strings that come from outside (cep, city names) are sequences of       *)
(* Unicode code points; fixed messages are TLA+ strings.  Temperatures     *)
(* are fixed-point numbers in hundredths of a degree.                      *)
(***************************************************************************)
EXTENDS Integers, Sequences, FiniteSets, TLC

\* Longest cep string a client sends.
MaxCepLen == 9

\* Request slots.  Spec handles the requests of Serial one after another.
Reqs == {"r1", "r2"}
Serial == {"r1"}

VARIABLES
  phase,                    \* "boot" before main ran, "serving" after, or
                            \* "fatal-exporter" / "fatal-listen": log.Fatal
  ZIPKIN_URL,               \* environment of both services
  edgeImpl,                 \* build of service-a that is deployed
  orchImpl,                 \* build of service-b that is deployed
  TEST_MODE,                \* environment of service-b
  WEATHER_API_KEY,          \* environment of service-b
  SIMULATE_CEP_NOT_FOUND,   \* environment of service-b
  testMode,                 \* service-b: testMode / WeatherService.testMode
  rq,                       \* per request slot: the request and its handling
  word,                     \* removeAccents: the argument texto
  result,                   \* removeAccents: the variable result
  order                     \* removeAccents: the order in which range gave
                            \* the entries of the map (<<>> before the loop)

vars == <<phase, ZIPKIN_URL, edgeImpl, orchImpl, TEST_MODE, WEATHER_API_KEY,
          SIMULATE_CEP_NOT_FOUND, testMode, rq, word, result, order>>

accents == <<word, result, order>>

config == <<ZIPKIN_URL, edgeImpl, orchImpl, TEST_MODE, WEATHER_API_KEY,
            SIMULATE_CEP_NOT_FOUND>>

-----------------------------------------------------------------------------
(* Strings *)

\* '0'..'9'
AsciiDigits == 48 .. 57

\* "29902555", the code of the README's examples, repeated as needed.
ExampleCEP == <<50, 57, 57, 48, 50, 53, 53, 53>>

DigitStr(n) == [i \in 1 .. n |-> ExampleCEP[((i - 1) % Len(ExampleCEP)) + 1]]

\* 'a', '-', ' ', '\n', U+0663 (ARABIC-INDIC DIGIT THREE)
OddChars == {97, 45, 32, 10, 1635}

\* The cep strings clients send: digit strings of every length up to
\* MaxCepLen, and the same with the first or the last character replaced
\* by a non-digit.
CepInputs ==
  {DigitStr(n) : n \in 0 .. MaxCepLen}
    \cup UNION {{[DigitStr(n) EXCEPT ![p] = c] : p \in {1, n}, c \in OddChars} :
                  n \in (MaxCepLen - 2) .. MaxCepLen}

\* "Linhares", "São Paulo" (U+00E3 = 227)
Linhares == <<76, 105, 110, 104, 97, 114, 101, 115>>
SaoPaulo == <<83, 227, 111, 32, 80, 97, 117, 108, 111>>
Cities == {Linhares, SaoPaulo}

\* Temperatures the provider reports, in hundredths of a degree Celsius:
\* -5.5, 0, 25.3, 100.
Temps == {-550, 0, 2530, 10000}

\* Texts of transport errors of the Go HTTP client.
TransportErrors == {"dial tcp: connection refused", "EOF"}

Contains(s, sub) ==
  \E i \in 1 .. (Len(s) - Len(sub) + 1) : SubSeq(s, i, i + Len(sub) - 1) = sub


-----------------------------------------------------------------------------
(* HTTP values *)

NoWeather == [city |-> <<>>, temp_C |-> 0, temp_F |-> 0, temp_K |-> 0]

\* A chunk of body bytes: plain text, or the JSON encoding of a
\* WeatherResponse.
TextBody(t) == [kind |-> "text", text |-> t, weather |-> NoWeather]
JsonBody(wr) == [kind |-> "json", text |-> "", weather |-> wr]

\* http.ResponseWriter: the codes WriteHeader was called with, in order (only
\* the first takes effect, a later call is logged as superfluous and
\* ignored), and the body chunks written.
NewWriter == [codes |-> <<>>, body |-> <<>>]

WriteHeader(w, code) == [w EXCEPT !.codes = Append(@, code)]

\* Write sends the header with 200 when no header was written before.
Write(w, chunk) ==
  LET w1 == IF w.codes = <<>> THEN WriteHeader(w, 200) ELSE w
  IN  [w1 EXCEPT !.body = Append(@, chunk)]

\* http.Error(w, text, code): writes the header, and the text and a newline.
httpError(w, text, code) == Write(WriteHeader(w, code), TextBody(text \o "\n"))

\* The status the client sees; 0 while nothing was written.
Status(w) == IF w.codes = <<>> THEN 0 ELSE w.codes[1]

\* A request body as the handler gets it: one that cannot be read, one that
\* is no JSON object with a string cep, or a JSON object.
UnreadableBody == [kind |-> "unreadable", obj |-> [x |-> <<>>]]
MalformedBody == [kind |-> "malformed", obj |-> [x |-> <<>>]]
ObjectBody(o) == [kind |-> "object", obj |-> o]

BodyInputs ==
  {UnreadableBody, MalformedBody, ObjectBody([city |-> <<>>])}
    \cup {ObjectBody([cep |-> c]) : c \in CepInputs}

Methods == {"GET", "POST", "PUT"}

\* The paths of the routes registered with http.HandleFunc.
Paths == {"/", "/health"}

UnmarshalLenient(body) ==
  IF body.kind = "object" /\ "cep" \in DOMAIN body.obj
    THEN [ok |-> TRUE, CEP |-> body.obj.cep]
    ELSE [ok |-> TRUE, CEP |-> <<>>]

\* json.Unmarshal(body, &request) into a struct with the one field
\* CEP `json:"cep"`: an absent field leaves the zero value "".
Unmarshal(body) ==
  IF body.kind # "object" THEN [ok |-> FALSE, CEP |-> <<>>]
  ELSE IF "cep" \in DOMAIN body.obj THEN [ok |-> TRUE, CEP |-> body.obj.cep]
  ELSE [ok |-> TRUE, CEP |-> <<>>]

\* json.Marshal(ServiceBRequest{CEP: cep})
Marshal(cep) == ObjectBody([cep |-> cep])

\* regexp.MustCompile(`^\d{8}$`).MatchString(cep): Go's \d is [0-9] only and
\* $ (no multi-line flag) matches at the end of the text only.
MatchStringUnanchored(cep) ==
  Len(cep) >= 8 /\ \A i \in 1 .. 8 : cep[i] \in AsciiDigits

MatchString(cep) ==
  Len(cep) = 8 /\ \A i \in 1 .. Len(cep) : cep[i] \in AsciiDigits

-----------------------------------------------------------------------------
(* What a call to another service comes back with *)

\* http.Client.Do towards service-b and the read of the response body:
\* err is the transport error ("" when a response arrived), readable says
\* whether ioutil.ReadAll of the response body succeeds.
NoHop == [err |-> "", status |-> 0, readable |-> FALSE, body |-> <<>>]
HopError(e) == [err |-> e, status |-> 0, readable |-> FALSE, body |-> <<>>]
HopResponse(w, rd) ==
  [err |-> "", status |-> Status(w), readable |-> rd, body |-> w.body]

\* The City Resolver's answer: a transport error, or a status and a body that
\* decodes (or not) to the fields localidade and erro.
NoViaCEP ==
  [err |-> "none", status |-> 0, decodes |-> FALSE, erro |-> FALSE,
   localidade |-> <<>>]

ViaCEPReplies ==
  {[err |-> e, status |-> 0, decodes |-> FALSE, erro |-> FALSE,
    localidade |-> <<>>] : e \in TransportErrors}
    \cup {[err |-> "", status |-> s, decodes |-> TRUE, erro |-> FALSE,
           localidade |-> <<>>] : s \in {400, 500}}
    \cup {[err |-> "", status |-> 200, decodes |-> FALSE, erro |-> FALSE,
           localidade |-> <<>>]}
    \cup {[err |-> "", status |-> 200, decodes |-> TRUE, erro |-> e,
           localidade |-> c] : e \in BOOLEAN, c \in Cities \cup {<<>>}}

\* The Temperature Provider's answer.
NoWeatherAPI == [err |-> "none", status |-> 0, decodes |-> FALSE, temp_c |-> 0]

WeatherAPIReplies ==
  {[err |-> e, status |-> 0, decodes |-> FALSE, temp_c |-> 0] :
     e \in TransportErrors}
    \cup {[err |-> "", status |-> s, decodes |-> TRUE, temp_c |-> 0] :
            s \in {400, 401}}
    \cup {[err |-> "", status |-> 200, decodes |-> FALSE, temp_c |-> 0]}
    \cup {[err |-> "", status |-> 200, decodes |-> TRUE, temp_c |-> t] :
            t \in Temps}

\* A Go result (value, error): err is "" for nil.
Ok(v) == [val |-> v, err |-> ""]
Err(v, e) == [val |-> v, err |-> e]

-----------------------------------------------------------------------------
(* service-a, build "cmd": handlers.HandleCEPRequest and client.SendCEP *)

\* What a stretch of a handler ends in: the response written so far, and
\* whether the handler goes on to the next call, and with which argument.
Reply(w) == [w |-> w, forward |-> FALSE, arg |-> <<>>]
Forward(w, arg) == [w |-> w, forward |-> TRUE, arg |-> arg]

\* HandleCEPRequest up to the call of SendCEP.
HandleCEPRequestBodyFirst(w, method, body) ==
  IF body.kind = "unreadable"
    THEN Reply(httpError(w, "Error reading request body", 400))
  ELSE IF ~Unmarshal(body).ok
    THEN Reply(httpError(w, "Invalid JSON format", 400))
  ELSE IF method # "POST"
    THEN Reply(httpError(w, "Method not allowed", 405))
  ELSE IF ~MatchString(Unmarshal(body).CEP)
    THEN Reply(Write(WriteHeader(w, 422), TextBody("invalid zipcode")))
  ELSE Forward(w, Unmarshal(body).CEP)

HandleCEPRequestUnvalidated(w, method, body) ==
  IF method # "POST"
    THEN Reply(httpError(w, "Method not allowed", 405))
  ELSE IF body.kind = "unreadable"
    THEN Reply(httpError(w, "Error reading request body", 400))
  ELSE IF ~Unmarshal(body).ok
    THEN Reply(httpError(w, "Invalid JSON format", 400))
  ELSE Forward(w, Unmarshal(body).CEP)

HandleCEPRequestHead(w, method, body) ==
  IF method # "POST"
    THEN Reply(httpError(w, "Method not allowed", 405))
  ELSE IF body.kind = "unreadable"
    THEN Reply(httpError(w, "Error reading request body", 400))
  ELSE IF ~Unmarshal(body).ok
    THEN Reply(httpError(w, "Invalid JSON format", 400))
  ELSE IF ~MatchString(Unmarshal(body).CEP)
    THEN Reply(Write(WriteHeader(w, 422), TextBody("invalid zipcode")))
  ELSE Forward(w, Unmarshal(body).CEP)

\* json.Unmarshal(respBody, &weatherResponse): the body must be one JSON
\* value.
DecodeWeather(body) ==
  IF Len(body) = 1 /\ body[1].kind = "json"
    THEN Ok(body[1].weather)
    ELSE Err(NoWeather, "invalid character")

\* SendCEP from client.Do on: (weatherResponse, status code, error).
SendResult(wr, code, e) == [weather |-> wr, status |-> code, err |-> e]

SendCEP(hop) ==
  IF hop.err # ""
    THEN SendResult(NoWeather, 500, "error sending request: " \o hop.err)
  ELSE IF ~hop.readable
    THEN SendResult(NoWeather, hop.status, "error reading response")
  ELSE IF hop.status # 200
    THEN SendResult(NoWeather, hop.status, "service B returned status")
  ELSE IF DecodeWeather(hop.body).err # ""
    THEN SendResult(NoWeather, 500, "error unmarshaling response")
  ELSE SendResult(DecodeWeather(hop.body).val, hop.status, "")

HandleCEPRequestTailRelay(w, sent) ==
  IF sent.err # ""
    THEN IF sent.status = 404
           THEN Write(WriteHeader(w, 404), TextBody("can not find zipcode"))
         ELSE IF sent.status = 422
           THEN Write(WriteHeader(w, 422), TextBody("invalid zipcode"))
         ELSE httpError(w, "Error calling Service B", sent.status)
    ELSE Write(w, JsonBody(sent.weather))

\* HandleCEPRequest after SendCEP returned.
HandleCEPRequestTail(w, sent) ==
  IF sent.err # ""
    THEN IF sent.status = 404
           THEN Write(WriteHeader(w, 404), TextBody("can not find zipcode"))
         ELSE IF sent.status = 422
           THEN Write(WriteHeader(w, 422), TextBody("invalid zipcode"))
         ELSE httpError(w, "Error calling Service B", 500)
    ELSE Write(w, JsonBody(sent.weather))

-----------------------------------------------------------------------------
(* service-a, build "main": handleRequest and sendRequestToServiceB *)

handleRequestHead(w, method, body) ==
  IF method # "POST"
    THEN Reply(httpError(w, "Method not allowed", 405))
  ELSE IF body.kind = "unreadable"
    THEN Reply(httpError(w, "Error reading request body", 400))
  ELSE IF ~Unmarshal(body).ok
    THEN Reply(httpError(w, "Invalid JSON format", 400))
  ELSE IF ~MatchString(Unmarshal(body).CEP)
    THEN Reply(Write(WriteHeader(w, 422), TextBody("invalid zipcode")))
  ELSE Forward(w, Unmarshal(body).CEP)

\* A response body is copied to the client chunk by chunk.
RECURSIVE WriteAll(_, _)
WriteAll(w, body) ==
  IF body = <<>> THEN w ELSE WriteAll(Write(w, Head(body)), Tail(body))

\* handleRequest after sendRequestToServiceB returned (resp, err).
handleRequestTail(w, hop) ==
  IF hop.err # ""
    THEN httpError(w, "Error calling Service B: " \o hop.err, 500)
  ELSE LET w1 == WriteHeader(w, hop.status)
       IN  IF ~hop.readable
             THEN httpError(w1, "Error reading response from Service B", 500)
             ELSE WriteAll(w1, hop.body)

-----------------------------------------------------------------------------
(* service-b: removal of accents and conversion of units (both builds hold *)
(* the same table and the same arithmetic)                                 *)

\* The map replacements as <<from, to>> pairs of code points, in the order
\* of the source: per row the letter with acute, grave, tilde, circumflex
\* and diaeresis (e, i, u: no tilde), then c with cedilla; lower case, then
\* upper case.
replacements ==
  << <<225, 97>>, <<224, 97>>, <<227, 97>>, <<226, 97>>, <<228, 97>>,
     <<233, 101>>, <<232, 101>>, <<234, 101>>, <<235, 101>>,
     <<237, 105>>, <<236, 105>>, <<238, 105>>, <<239, 105>>,
     <<243, 111>>, <<242, 111>>, <<245, 111>>, <<244, 111>>, <<246, 111>>,
     <<250, 117>>, <<249, 117>>, <<251, 117>>, <<252, 117>>,
     <<231, 99>>,
     <<193, 65>>, <<192, 65>>, <<195, 65>>, <<194, 65>>, <<196, 65>>,
     <<201, 69>>, <<200, 69>>, <<202, 69>>, <<203, 69>>,
     <<205, 73>>, <<204, 73>>, <<206, 73>>, <<207, 73>>,
     <<211, 79>>, <<210, 79>>, <<213, 79>>, <<212, 79>>, <<214, 79>>,
     <<218, 85>>, <<217, 85>>, <<219, 85>>, <<220, 85>>,
     <<199, 67>> >>

ReplaceFirst(s, from, to) ==
  [i \in DOMAIN s |->
     IF s[i] = from /\ \A j \in 1 .. (i - 1) : s[j] # from THEN to ELSE s[i]]

\* strings.Replace(s, from, to, -1) for a from and a to of one code point
\* each: every key of the table is one two-byte UTF-8 sequence, so replacing
\* its bytes in valid UTF-8 replaces exactly its occurrences as a character.
Replace(s, from, to) == [i \in DOMAIN s |-> IF s[i] = from THEN to ELSE s[i]]

\* The loop over the table, entry by entry.
RECURSIVE ReplaceEach(_, _)
ReplaceEach(s, table) ==
  IF table = <<>> THEN s
  ELSE ReplaceEach(Replace(s, Head(table)[1], Head(table)[2]), Tail(table))

\* WeatherService.removeAccents (handlers.go) and removeAccents (main.go)
removeAccents(texto) == ReplaceEach(texto, replacements)

mainRemoveAccents(s) == ReplaceEach(s, replacements)

removeAccentsInChained(texto, ord) ==
  ReplaceEach(texto, [i \in DOMAIN ord |->
                        IF ord[i] = 3 THEN <<227, 225>>
                        ELSE replacements[ord[i]]])

\* The loop with the entries in the order ord (a sequence of indices of the
\* table): range over a Go map gives the entries in an unspecified order.
removeAccentsIn(texto, ord) ==
  ReplaceEach(texto, [i \in DOMAIN ord |-> replacements[ord[i]]])

\* tempF := tempC*1.8 + 32 and tempK := tempC + 273, on hundredths of a
\* degree (every temperature here has at most one decimal, so the division
\* is exact).
tempF(tempC) == (tempC * 18) \div 10 + 3200

tempK27315(tempC) == tempC + 27315

tempK(tempC) == tempC + 27300

mainTempF(tempC) == (tempC * 18) \div 10 + 3200

mainTempK(tempC) == tempC + 27300

\* The value GetTemperature returns in test mode: 25.0
TestModeTemp == 2500

-----------------------------------------------------------------------------
(* service-b, build "cmd": handlers.HandleWeatherRequest and WeatherService *)

\* HandleWeatherRequest up to the call of GetCityByCEP.
HandleWeatherRequestHead(w, method, body) ==
  IF method # "POST"
    THEN Reply(httpError(w, "Method not allowed", 405))
  ELSE IF body.kind = "unreadable"
    THEN Reply(httpError(w, "Error reading request body", 400))
  ELSE IF ~Unmarshal(body).ok
    THEN Reply(Write(WriteHeader(w, 400), TextBody("invalid request format")))
  ELSE IF ~MatchString(Unmarshal(body).CEP)
    THEN Reply(Write(WriteHeader(w, 422), TextBody("invalid zipcode")))
  ELSE Forward(w, Unmarshal(body).CEP)

\* What a service function does before it blocks: it returns res at once, or
\* it sends a GET with the argument arg and waits.
Return(res) == [call |-> FALSE, arg |-> <<>>, res |-> res]
Call(arg) == [call |-> TRUE, arg |-> arg, res |-> Ok(<<>>)]

\* GetCityByCEP up to client.Do.
GetCityByCEPNoSimulation(simulate, cep) == Call(cep)

GetCityByCEPStart(simulate, cep) ==
  IF simulate = "true" THEN Return(Err(<<>>, "CEP not found")) ELSE Call(cep)

\* GetCityByCEP from client.Do on.
GetCityByCEPEnd(reply) ==
  IF reply.err # "" THEN Err(<<>>, reply.err)
  ELSE IF reply.status # 200 THEN Err(<<>>, "CEP not found")
  ELSE IF ~reply.decodes THEN Err(<<>>, "invalid character")
  ELSE IF reply.erro THEN Err(<<>>, "CEP not found")
  ELSE IF reply.localidade = <<>> THEN Err(<<>>, "City not found")
  ELSE Ok(reply.localidade)

\* GetTemperature up to client.Do.
GetTemperatureKeyFirst(test, apiKey, cidade) ==
  IF apiKey = "" THEN Return(Err(0, "WEATHER_API_KEY not set"))
  ELSE IF test THEN Return(Ok(TestModeTemp))
  ELSE Call(removeAccents(cidade))

GetTemperatureStart(test, apiKey, cidade) ==
  IF test THEN Return(Ok(TestModeTemp))
  ELSE IF apiKey = "" THEN Return(Err(0, "WEATHER_API_KEY not set"))
  ELSE Call(removeAccents(cidade))

\* GetTemperature from client.Do on.
GetTemperatureEnd(reply) ==
  IF reply.err # "" THEN Err(0, reply.err)
  ELSE IF reply.status # 200 THEN Err(0, "Error getting weather data")
  ELSE IF ~reply.decodes THEN Err(0, "invalid character")
  ELSE Ok(reply.temp_c)

\* HandleWeatherRequest on the result of GetCityByCEP: not found, or on to
\* GetTemperature with the city.
HandleWeatherRequestAfterCity(w, city) ==
  IF city.err # ""
    THEN Reply(Write(WriteHeader(w, 404), TextBody("can not find zipcode")))
    ELSE Forward(w, city.val)

\* HandleWeatherRequest on the result of GetTemperature.
HandleWeatherRequestNotFound(w, cidade, temp) ==
  IF temp.err # ""
    THEN Write(WriteHeader(w, 404), TextBody("can not find zipcode"))
    ELSE Write(w, JsonBody([city |-> cidade, temp_C |-> temp.val,
                            temp_F |-> tempF(temp.val),
                            temp_K |-> tempK(temp.val)]))

HandleWeatherRequestAfterTemperature(w, cidade, temp) ==
  IF temp.err # ""
    THEN httpError(w, "Error getting temperature", 500)
    ELSE Write(w, JsonBody([city |-> cidade, temp_C |-> temp.val,
                            temp_F |-> tempF(temp.val),
                            temp_K |-> tempK(temp.val)]))

-----------------------------------------------------------------------------
(* service-b, build "main": handleWeatherRequest, getCityByCEP,            *)
(* getTemperature                                                          *)

handleWeatherRequestHead(w, method, body) ==
  IF method # "POST"
    THEN Reply(httpError(w, "Method not allowed", 405))
  ELSE IF body.kind = "unreadable"
    THEN Reply(httpError(w, "Error reading request body", 400))
  ELSE IF ~Unmarshal(body).ok
    THEN Reply(Write(WriteHeader(w, 400), TextBody("invalid request format")))
  ELSE IF ~MatchString(Unmarshal(body).CEP)
    THEN Reply(Write(WriteHeader(w, 422), TextBody("invalid zipcode")))
  ELSE Forward(w, Unmarshal(body).CEP)

getCityByCEPStart(simulate, cep) ==
  IF simulate = "true" THEN Return(Err(<<>>, "CEP not found")) ELSE Call(cep)

\* ViaCEPResponse of this build has the one field Cidade `json:"localidade"`:
\* the reply's erro is not decoded.
getCityByCEPEnd(reply) ==
  IF reply.err # "" THEN Err(<<>>, reply.err)
  ELSE IF reply.status # 200 THEN Err(<<>>, "CEP not found")
  ELSE IF ~reply.decodes THEN Err(<<>>, "invalid character")
  ELSE IF reply.localidade = <<>> THEN Err(<<>>, "CEP not found")
  ELSE Ok(reply.localidade)

getTemperatureStart(test, apiKey, cidade) ==
  IF test THEN Return(Ok(TestModeTemp))
  ELSE IF apiKey = "" THEN Return(Err(0, "WEATHER_API_KEY not set"))
  ELSE Call(mainRemoveAccents(cidade))

getTemperatureEnd(reply) ==
  IF reply.err # "" THEN Err(0, reply.err)
  ELSE IF reply.status # 200 THEN Err(0, "Error getting weather data")
  ELSE IF ~reply.decodes THEN Err(0, "invalid character")
  ELSE Ok(reply.temp_c)

handleWeatherRequestAfterCity(w, city) ==
  IF city.err # ""
    THEN Reply(Write(WriteHeader(w, 404), TextBody("can not find zipcode")))
    ELSE Forward(w, city.val)

handleWeatherRequestAfterTemperature(w, cidade, temp) ==
  IF temp.err # ""
    THEN httpError(w, "Error getting temperature", 500)
    ELSE Write(w, JsonBody([city |-> cidade, temp_C |-> temp.val,
                            temp_F |-> mainTempF(temp.val),
                            temp_K |-> mainTempK(temp.val)]))

-----------------------------------------------------------------------------
(* State of one request slot *)

NoResult == [val |-> <<>>, err |-> "unset"]

\* target: the service the client sent the request to; path, method, body:
\* the request; epc, opc: where the handler of service-a, of service-b stands
\* ("none", "recv": request received, "wait"/"city"/"temp": blocked in the
\* call to service-b/ViaCEP/WeatherAPI, "done": returned, "lost": the request
\* never arrived); oreq: the request service-b received; calls: the outbound
\* calls made so far; hop, viacep, weatherapi: what the calls came back with;
\* cityRes, tempRes: the results of GetCityByCEP and GetTemperature; cidade:
\* the handler's variable; ew, ow: the response writers.
Idle ==
  [target |-> "none", path |-> "/", method |-> "", body |-> MalformedBody,
   epc |-> "none", opc |-> "none",
   oreq |-> [method |-> "", body |-> MalformedBody],
   calls |-> <<>>, hop |-> NoHop, viacep |-> NoViaCEP,
   weatherapi |-> NoWeatherAPI, cityRes |-> NoResult, tempRes |-> NoResult,
   cidade |-> <<>>, ew |-> NewWriter, ow |-> NewWriter]

CallTo(from, to, arg) == [from |-> from, to |-> to, arg |-> arg]

\* The values of ZIPKIN_URL: not set, the URL of a collector, a text that
\* is no URL with scheme and host.
ZipkinURLs == {"", "http://collector:9411/api/v2/spans", "collector"}

Init ==
  /\ phase = "boot"
  /\ ZIPKIN_URL \in ZipkinURLs
  /\ edgeImpl \in {"cmd", "main"}
  /\ orchImpl \in {"cmd", "main"}
  /\ TEST_MODE \in {"", "false", "true"}
  /\ WEATHER_API_KEY \in {"", "k3y"}
  /\ SIMULATE_CEP_NOT_FOUND \in {"", "true"}
  /\ testMode = FALSE
  /\ rq = [r \in Reqs |-> Idle]
  /\ word = <<>>
  /\ result = <<>>
  /\ order = <<>>

\* InitTracer: the collector's URL is ZIPKIN_URL, or the default when that
\* is not set.
zipkinURL ==
  IF ZIPKIN_URL # "" THEN ZIPKIN_URL ELSE "http://zipkin:9411/api/v2/spans"

\* zipkin.New(collectorURL): the error, "" for nil.  The exporter is made
\* without contacting the collector; New fails when the text is no URL
\* with a scheme and a host.
zipkinNew(collectorURL) ==
  IF Contains(collectorURL, "://") THEN "" ELSE "invalid collector URL"

mainZipkinRequired ==
  /\ phase = "boot"
  /\ \E listens \in BOOLEAN :
       IF ZIPKIN_URL = "" \/ zipkinNew(zipkinURL) # ""
         THEN phase' = "fatal-exporter" /\ testMode' = testMode
         ELSE /\ testMode' = (TEST_MODE = "true")
              /\ phase' = IF listens THEN "serving" ELSE "fatal-listen"
  /\ UNCHANGED <<config, rq, accents>>

\* main: InitTracer (log.Fatalf when the exporter cannot be made; merging
\* the default resource with one without schema URL does not fail), then
\* test mode is read from the environment once, then ListenAndServe, which
\* serves, or returns at once with an error that log.Fatal reports.
main ==
  /\ phase = "boot"
  /\ \E listens \in BOOLEAN :
       IF zipkinNew(zipkinURL) # ""
         THEN phase' = "fatal-exporter" /\ testMode' = testMode
         ELSE /\ testMode' = (TEST_MODE = "true")
              /\ phase' = IF listens THEN "serving" ELSE "fatal-listen"
  /\ UNCHANGED <<config, rq, accents>>

\* A client sends a request to one of the services.
Receive(r) ==
  /\ phase = "serving"
  /\ rq[r] = Idle
  /\ \E t \in {"edge", "orch"}, p \in Paths, m \in Methods, b \in BodyInputs :
       rq' = [rq EXCEPT ![r] =
                IF t = "edge"
                  THEN [Idle EXCEPT !.target = t, !.path = p, !.method = m,
                                    !.body = b, !.epc = "recv"]
                  ELSE [Idle EXCEPT !.target = t, !.path = p, !.method = m,
                                    !.body = b, !.opc = "recv",
                                    !.oreq = [method |-> m, body |-> b]]]
  /\ UNCHANGED <<phase, config, testMode, accents>>

\* The client has its response; the slot is free again.
Respond(r) ==
  /\ \/ rq[r].target = "edge" /\ rq[r].epc = "done"
     \/ rq[r].target = "orch" /\ rq[r].opc = "done"
  /\ rq' = [rq EXCEPT ![r] = Idle]
  /\ UNCHANGED <<phase, config, testMode, accents>>

-----------------------------------------------------------------------------
(* service-a *)

\* The handler of build impl runs from the start to its response or to the
\* POST of {"cep": cep} to service-b.
EdgeStart(impl, w, method, body) ==
  IF impl = "cmd" THEN HandleCEPRequestHead(w, method, body)
                  ELSE handleRequestHead(w, method, body)

EdgeOnRequest(impl, q) ==
  LET s == EdgeStart(impl, NewWriter, q.method, q.body)
  IN  IF s.forward
        THEN [q EXCEPT !.epc = "wait", !.ew = s.w,
                       !.calls = Append(@, CallTo("service-a", "service-b", s.arg)),
                       !.opc = "recv",
                       !.oreq = [method |-> "POST", body |-> Marshal(s.arg)]]
        ELSE [q EXCEPT !.epc = "done", !.ew = s.w]

\* What the call to service-b can come back with: the response service-b
\* wrote, whose body can or cannot be read to its end, or a transport error
\* (the request did not arrive, or the response did not).
HopResults(q) ==
  (IF q.opc = "done" THEN {HopResponse(q.ow, rd) : rd \in BOOLEAN} ELSE {})
    \cup (IF q.opc \in {"recv", "done"}
            THEN {HopError(e) : e \in TransportErrors} ELSE {})

EdgeOnReturn(q, hop, w) ==
  [q EXCEPT !.epc = "done", !.hop = hop, !.ew = w,
            !.opc = IF @ = "recv" THEN "lost" ELSE @]

HandleCEPRequest(r) ==
  /\ edgeImpl = "cmd"
  /\ rq[r].path = "/"
  /\ rq[r].epc = "recv"
  /\ rq' = [rq EXCEPT ![r] = EdgeOnRequest("cmd", @)]
  /\ UNCHANGED <<phase, config, testMode, accents>>

HandleCEPRequestReturn(r) ==
  /\ edgeImpl = "cmd"
  /\ rq[r].epc = "wait"
  /\ \E hop \in HopResults(rq[r]) :
       rq' = [rq EXCEPT ![r] =
                EdgeOnReturn(@, hop, HandleCEPRequestTail(@.ew, SendCEP(hop)))]
  /\ UNCHANGED <<phase, config, testMode, accents>>

handleRequest(r) ==
  /\ edgeImpl = "main"
  /\ rq[r].path = "/"
  /\ rq[r].epc = "recv"
  /\ rq' = [rq EXCEPT ![r] = EdgeOnRequest("main", @)]
  /\ UNCHANGED <<phase, config, testMode, accents>>

handleRequestReturn(r) ==
  /\ edgeImpl = "main"
  /\ rq[r].epc = "wait"
  /\ \E hop \in HopResults(rq[r]) :
       rq' = [rq EXCEPT ![r] =
                EdgeOnReturn(@, hop, handleRequestTail(@.ew, hop))]
  /\ UNCHANGED <<phase, config, testMode, accents>>

-----------------------------------------------------------------------------
(* service-b *)

\* The stretches of the handler of build impl.
OrchStart(impl, w, method, body) ==
  IF impl = "cmd" THEN HandleWeatherRequestHead(w, method, body)
                  ELSE handleWeatherRequestHead(w, method, body)

CityStart(impl, simulate, cep) ==
  IF impl = "cmd" THEN GetCityByCEPStart(simulate, cep)
                  ELSE getCityByCEPStart(simulate, cep)

CityEnd(impl, reply) ==
  IF impl = "cmd" THEN GetCityByCEPEnd(reply) ELSE getCityByCEPEnd(reply)

AfterCity(impl, w, city) ==
  IF impl = "cmd" THEN HandleWeatherRequestAfterCity(w, city)
                  ELSE handleWeatherRequestAfterCity(w, city)

TemperatureStart(impl, test, apiKey, cidade) ==
  IF impl = "cmd" THEN GetTemperatureStart(test, apiKey, cidade)
                  ELSE getTemperatureStart(test, apiKey, cidade)

TemperatureEnd(impl, reply) ==
  IF impl = "cmd" THEN GetTemperatureEnd(reply) ELSE getTemperatureEnd(reply)

AfterTemperature(impl, w, cidade, temp) ==
  IF impl = "cmd" THEN HandleWeatherRequestAfterTemperature(w, cidade, temp)
                  ELSE handleWeatherRequestAfterTemperature(w, cidade, temp)

OrchOnTemperatureSharedCidade(impl, q, temp) ==
  LET others == {r \in Reqs : rq[r] # q /\ rq[r].cidade # <<>>}
      shared == IF others = {} THEN q.cidade
                ELSE rq[CHOOSE r \in others : TRUE].cidade
  IN  [q EXCEPT !.opc = "done", !.tempRes = temp,
                !.ow = AfterTemperature(impl, q.ow, shared, temp)]

\* The handler has the result of GetTemperature and responds.
OrchOnTemperature(impl, q, temp) ==
  [q EXCEPT !.opc = "done", !.tempRes = temp,
            !.ow = AfterTemperature(impl, q.ow, q.cidade, temp)]

\* The handler has the result of GetCityByCEP: it responds, or it calls
\* GetTemperature, which returns at once or sends its GET to WeatherAPI.
OrchOnCity(impl, q, city) ==
  LET a == AfterCity(impl, q.ow, city)
      q1 == [q EXCEPT !.cityRes = city, !.ow = a.w]
  IN  IF ~a.forward THEN [q1 EXCEPT !.opc = "done"]
      ELSE LET t == TemperatureStart(impl, testMode, WEATHER_API_KEY, a.arg)
               q2 == [q1 EXCEPT !.cidade = a.arg]
           IN  IF t.call
                 THEN [q2 EXCEPT !.opc = "temp",
                                 !.calls = Append(@, CallTo("service-b", "weatherapi", t.arg))]
                 ELSE OrchOnTemperature(impl, q2, t.res)

\* The handler runs from the start: it responds, or it calls GetCityByCEP,
\* which returns at once or sends its GET to ViaCEP.
OrchOnRequest(impl, q) ==
  LET s == OrchStart(impl, NewWriter, q.oreq.method, q.oreq.body)
      q1 == [q EXCEPT !.ow = s.w]
  IN  IF ~s.forward THEN [q1 EXCEPT !.opc = "done"]
      ELSE LET c == CityStart(impl, SIMULATE_CEP_NOT_FOUND, s.arg)
           IN  IF c.call
                 THEN [q1 EXCEPT !.opc = "city",
                                 !.calls = Append(@, CallTo("service-b", "viacep", c.arg))]
                 ELSE OrchOnCity(impl, q1, c.res)

HandleWeatherRequest(r) ==
  /\ orchImpl = "cmd"
  /\ rq[r].path = "/"
  /\ rq[r].opc = "recv"
  /\ rq' = [rq EXCEPT ![r] =
              OrchOnRequest("cmd", @)]
  /\ UNCHANGED <<phase, config, testMode, accents>>

HandleWeatherRequestOnCity(r) ==
  /\ orchImpl = "cmd"
  /\ rq[r].opc = "city"
  /\ \E reply \in ViaCEPReplies :
       rq' = [rq EXCEPT ![r] =
                OrchOnCity("cmd", [@ EXCEPT !.viacep = reply],
                           CityEnd("cmd", reply))]
  /\ UNCHANGED <<phase, config, testMode, accents>>

HandleWeatherRequestOnTemperature(r) ==
  /\ orchImpl = "cmd"
  /\ rq[r].opc = "temp"
  /\ \E reply \in WeatherAPIReplies :
       rq' = [rq EXCEPT ![r] =
                OrchOnTemperature("cmd", [@ EXCEPT !.weatherapi = reply],
                                  TemperatureEnd("cmd", reply))]
  /\ UNCHANGED <<phase, config, testMode, accents>>

handleWeatherRequest(r) ==
  /\ orchImpl = "main"
  /\ rq[r].path = "/"
  /\ rq[r].opc = "recv"
  /\ rq' = [rq EXCEPT ![r] =
              OrchOnRequest("main", @)]
  /\ UNCHANGED <<phase, config, testMode, accents>>

handleWeatherRequestOnCity(r) ==
  /\ orchImpl = "main"
  /\ rq[r].opc = "city"
  /\ \E reply \in ViaCEPReplies :
       rq' = [rq EXCEPT ![r] =
                OrchOnCity("main", [@ EXCEPT !.viacep = reply],
                           CityEnd("main", reply))]
  /\ UNCHANGED <<phase, config, testMode, accents>>

handleWeatherRequestOnTemperature(r) ==
  /\ orchImpl = "main"
  /\ rq[r].opc = "temp"
  /\ \E reply \in WeatherAPIReplies :
       rq' = [rq EXCEPT ![r] =
                OrchOnTemperature("main", [@ EXCEPT !.weatherapi = reply],
                                  TemperatureEnd("main", reply))]
  /\ UNCHANGED <<phase, config, testMode, accents>>

-----------------------------------------------------------------------------
(* /health of both services *)

\* json.NewEncoder(w).Encode(map[string]string{"status": "ok"})
StatusOk == [kind |-> "status", text |-> "ok", weather |-> NoWeather]

HealthCheckPostOnly(w, method) ==
  IF method # "POST"
    THEN httpError(w, "Method not allowed", 405)
    ELSE Write(WriteHeader(w, 200), StatusOk)

\* HandleHealthCheck / handleHealthCheck: the request is not looked at.
HealthCheck(w, method) == Write(WriteHeader(w, 200), StatusOk)

HealthOnRequest(q) ==
  IF q.target = "edge"
    THEN [q EXCEPT !.epc = "done", !.ew = HealthCheck(NewWriter, q.method)]
    ELSE [q EXCEPT !.opc = "done", !.ow = HealthCheck(NewWriter, q.method)]

HandleHealthCheck(r) ==
  /\ rq[r].path = "/health"
  /\ \/ rq[r].target = "edge" /\ edgeImpl = "cmd" /\ rq[r].epc = "recv"
     \/ rq[r].target = "orch" /\ orchImpl = "cmd" /\ rq[r].opc = "recv"
  /\ rq' = [rq EXCEPT ![r] = HealthOnRequest(@)]
  /\ UNCHANGED <<phase, config, testMode, accents>>

handleHealthCheck(r) ==
  /\ rq[r].path = "/health"
  /\ \/ rq[r].target = "edge" /\ edgeImpl = "main" /\ rq[r].epc = "recv"
     \/ rq[r].target = "orch" /\ orchImpl = "main" /\ rq[r].opc = "recv"
  /\ rq' = [rq EXCEPT ![r] = HealthOnRequest(@)]
  /\ UNCHANGED <<phase, config, testMode, accents>>

-----------------------------------------------------------------------------

Handle(r) ==
  \/ Receive(r)
  \/ HandleCEPRequest(r)
  \/ HandleCEPRequestReturn(r)
  \/ handleRequest(r)
  \/ handleRequestReturn(r)
  \/ HandleWeatherRequest(r)
  \/ HandleWeatherRequestOnCity(r)
  \/ HandleWeatherRequestOnTemperature(r)
  \/ handleWeatherRequest(r)
  \/ handleWeatherRequestOnCity(r)
  \/ handleWeatherRequestOnTemperature(r)
  \/ HandleHealthCheck(r)
  \/ handleHealthCheck(r)
  \/ Respond(r)

Next == main \/ \E r \in Serial : Handle(r)

Spec == Init /\ [][Next]_vars

-----------------------------------------------------------------------------
(* service-a of build "cmd" on its own: SERVICE_B_URL names a server that  *)
(* answers with any of the responses the handler of service-b can write    *)

ServiceBResponses ==
  {httpError(NewWriter, "Method not allowed", 405),
   httpError(NewWriter, "Error reading request body", 400),
   Write(WriteHeader(NewWriter, 400), TextBody("invalid request format")),
   Write(WriteHeader(NewWriter, 422), TextBody("invalid zipcode")),
   Write(WriteHeader(NewWriter, 404), TextBody("can not find zipcode")),
   httpError(NewWriter, "Error getting temperature", 500)}
    \cup {HandleWeatherRequestAfterTemperature(NewWriter, c, Ok(t)) :
            c \in Cities, t \in Temps}

InitEdge == Init /\ edgeImpl = "cmd"

\* A client sends a request to the main endpoint of service-a.
ReceiveEdge(r) ==
  /\ phase = "serving"
  /\ rq[r] = Idle
  /\ \E m \in Methods, b \in BodyInputs :
       rq' = [rq EXCEPT ![r] = [Idle EXCEPT !.target = "edge", !.method = m,
                                            !.body = b, !.epc = "recv"]]
  /\ UNCHANGED <<phase, config, testMode, accents>>

\* The server behind SERVICE_B_URL answers the POST of service-a.
ServiceB(r) ==
  /\ rq[r].epc = "wait"
  /\ rq[r].opc = "recv"
  /\ \E w \in ServiceBResponses :
       rq' = [rq EXCEPT ![r] = [@ EXCEPT !.opc = "done", !.ow = w]]
  /\ UNCHANGED <<phase, config, testMode, accents>>

HandleEdge(r) ==
  \/ ReceiveEdge(r)
  \/ HandleCEPRequest(r)
  \/ ServiceB(r)
  \/ HandleCEPRequestReturn(r)
  \/ Respond(r)

NextEdge == main \/ \E r \in Serial : HandleEdge(r)

SpecEdge == InitEdge /\ [][NextEdge]_vars

-----------------------------------------------------------------------------
(* removeAccents on its own *)

\* Longest string of the small alphabet given to removeAccents.
MaxTextLen == 3

\* The keys and the values of the table.
Keys == {replacements[i][1] : i \in DOMAIN replacements}
Values == {replacements[i][2] : i \in DOMAIN replacements}

\* Characters outside the table: space, '-', '0', 'n', n with tilde, sharp s,
\* the multiplication sign, y with acute and with diaeresis, the combining
\* tilde, and e, i, u with tilde in both cases (U+1EBD, U+0129, U+0169,
\* U+1EBC, U+0128, U+0168).
OtherChars ==
  {32, 45, 48, 110, 241, 223, 215, 253, 255, 771,
   7869, 297, 361, 7868, 296, 360}

AccentChars == Keys \cup Values \cup OtherChars

\* a with tilde, 'a', C with cedilla, e with tilde
SmallChars == {227, 97, 199, 7869}

\* The arguments: every string of at most one character, the strings of two
\* to MaxTextLen characters of the small alphabet, and the city names.
AccentInputs ==
  {<<>>} \cup {<<c>> : c \in AccentChars}
    \cup UNION {[1 .. n -> SmallChars] : n \in 2 .. MaxTextLen}
    \cup Cities

\* Orders of iteration over the map: the order of the source rotated to
\* start at any entry, forwards and backwards.
Rotation(k) ==
  [i \in DOMAIN replacements |-> ((i + k - 1) % Len(replacements)) + 1]

Backwards(ord) == [i \in DOMAIN ord |-> ord[Len(ord) + 1 - i]]

Orders ==
  {Rotation(k) : k \in 0 .. Len(replacements) - 1}
    \cup {Backwards(Rotation(k)) : k \in 0 .. Len(replacements) - 1}

InitAccents ==
  /\ phase = "boot"
  /\ ZIPKIN_URL = ""
  /\ edgeImpl = "cmd"
  /\ orchImpl \in {"cmd", "main"}
  /\ TEST_MODE = ""
  /\ WEATHER_API_KEY = ""
  /\ SIMULATE_CEP_NOT_FOUND = ""
  /\ testMode = FALSE
  /\ rq = [r \in Reqs |-> Idle]
  /\ word \in AccentInputs
  /\ result = <<>>
  /\ order = <<>>

\* WeatherService.removeAccents(word) runs from result := texto to return.
RemoveAccents ==
  /\ orchImpl = "cmd"
  /\ order = <<>>
  /\ \E ord \in Orders :
       /\ order' = ord
       /\ result' = removeAccentsIn(word, ord)
  /\ UNCHANGED <<phase, config, testMode, rq, word>>

\* removeAccents(word) of main.go likewise.
MainRemoveAccents ==
  /\ orchImpl = "main"
  /\ order = <<>>
  /\ \E ord \in Orders :
       /\ order' = ord
       /\ result' = removeAccentsIn(word, ord)
  /\ UNCHANGED <<phase, config, testMode, rq, word>>

NextAccents == RemoveAccents \/ MainRemoveAccents

SpecAccents == InitAccents /\ [][NextAccents]_vars

-----------------------------------------------------------------------------
(* Both services with the requests of Reqs in flight at the same time: the *)
(* server runs every handler in a goroutine of its own                     *)

\* The bodies sent here: no JSON, the example code, a code of seven digits.
ConcBodies ==
  {MalformedBody, ObjectBody([cep |-> ExampleCEP]),
   ObjectBody([cep |-> DigitStr(7)])}

InitConc ==
  /\ Init
  /\ ZIPKIN_URL = ""
  /\ TEST_MODE \in {"", "true"}
  /\ WEATHER_API_KEY = "k3y"
  /\ SIMULATE_CEP_NOT_FOUND = ""

\* The record of a request that has just arrived.
Arrived(t, p, m, b) ==
  IF t = "edge"
    THEN [Idle EXCEPT !.target = t, !.path = p, !.method = m, !.body = b,
                      !.epc = "recv"]
    ELSE [Idle EXCEPT !.target = t, !.path = p, !.method = m, !.body = b,
                      !.opc = "recv", !.oreq = [method |-> m, body |-> b]]

ReceiveConc(r) ==
  /\ phase = "serving"
  /\ rq[r] = Idle
  /\ \E t \in {"edge", "orch"}, p \in Paths, m \in {"GET", "POST"},
        b \in ConcBodies :
       rq' = [rq EXCEPT ![r] = Arrived(t, p, m, b)]
  /\ UNCHANGED <<phase, config, testMode, accents>>

HandleConc(r) ==
  \/ ReceiveConc(r)
  \/ HandleCEPRequest(r)
  \/ HandleCEPRequestReturn(r)
  \/ handleRequest(r)
  \/ handleRequestReturn(r)
  \/ HandleWeatherRequest(r)
  \/ HandleWeatherRequestOnCity(r)
  \/ HandleWeatherRequestOnTemperature(r)
  \/ handleWeatherRequest(r)
  \/ handleWeatherRequestOnCity(r)
  \/ handleWeatherRequestOnTemperature(r)
  \/ HandleHealthCheck(r)
  \/ handleHealthCheck(r)
  \/ Respond(r)

NextConc == main \/ \E r \in Reqs : HandleConc(r)

SpecConc == InitConc /\ [][NextConc]_vars

-----------------------------------------------------------------------------
(* Properties *)

\* The strings of exactly eight ASCII decimal digits.
EightDigits == [1 .. 8 -> 48 .. 57]

InvalidZipcode == [codes |-> <<422>>, body |-> <<TextBody("invalid zipcode")>>]

NotFound == [codes |-> <<404>>, body |-> <<TextBody("can not find zipcode")>>]

HasCep(body) == body.kind = "object" /\ "cep" \in DOMAIN body.obj

EdgeDone(q) == q.target = "edge" /\ q.path = "/" /\ q.epc = "done"

OrchDone(q) == q.path = "/" /\ q.opc = "done"

CallsFrom(q, svc) == {i \in DOMAIN q.calls : q.calls[i].from = svc}

CallsTo(q, svc) == {i \in DOMAIN q.calls : q.calls[i].to = svc}

\* C1: a POST whose body parses and whose cep is a string that is not
\* exactly eight ASCII digits is answered 422 "invalid zipcode", by the main
\* endpoint of service-a and by that of service-b.
C1_InvalidCepIs422 ==
  \A r \in Reqs :
    LET q == rq[r]
    IN  /\ (EdgeDone(q) /\ q.method = "POST" /\ HasCep(q.body)
              /\ q.body.obj.cep \notin EightDigits)
             => q.ew = InvalidZipcode
        /\ (OrchDone(q) /\ q.oreq.method = "POST" /\ HasCep(q.oreq.body)
              /\ q.oreq.body.obj.cep \notin EightDigits)
             => q.ow = InvalidZipcode

\* Both services have answered 422 to eight digits followed by a newline and
\* to nine digits.
C1_Witness ==
  \E r \in Reqs :
    /\ rq[r].method = "POST"
    /\ HasCep(rq[r].body)
    /\ rq[r].body.obj.cep \in
         {DigitStr(9), [DigitStr(9) EXCEPT ![9] = 10]}
    /\ \/ EdgeDone(rq[r]) /\ rq[r].ew = InvalidZipcode
       \/ rq[r].target = "orch" /\ OrchDone(rq[r]) /\ rq[r].ow = InvalidZipcode

\* C2: every code carried by a call to service-b or to ViaCEP is eight ASCII
\* digits; service-a calls only for a POST whose body parsed to such a code,
\* and so does service-b; a request answered 405, 400 or 422 made no
\* outbound call at all.
C2_CallsOnlyAfterValidation ==
  \A r \in Reqs :
    LET q == rq[r]
    IN  /\ \A i \in DOMAIN q.calls :
             q.calls[i].to \in {"service-b", "viacep"}
               => q.calls[i].arg \in EightDigits
        /\ CallsFrom(q, "service-a") # {}
             => /\ q.method = "POST"
                /\ HasCep(q.body)
                /\ q.body.obj.cep \in EightDigits
                /\ q.calls[1] = CallTo("service-a", "service-b", q.body.obj.cep)
        /\ CallsFrom(q, "service-b") # {}
             => /\ q.oreq.method = "POST"
                /\ HasCep(q.oreq.body)
                /\ q.oreq.body.obj.cep \in EightDigits
        /\ \A i \in CallsTo(q, "viacep") : q.calls[i].arg = q.oreq.body.obj.cep
        /\ (EdgeDone(q) /\ Status(q.ew) \in {405, 400, 422}) => q.calls = <<>>
        /\ (OrchDone(q) /\ Status(q.ow) \in {405, 400, 422}) => q.calls = <<>>

\* A request to service-a went through both services: the code was
\* forwarded to service-b and from there to ViaCEP; and one with a bad code
\* was answered 422 without any call.
C2_Witness ==
  \E r \in Reqs :
    /\ EdgeDone(rq[r])
    /\ Status(rq[r].ew) = 200
    /\ Len(rq[r].calls) = 3
    /\ rq[r].calls[1] = CallTo("service-a", "service-b", ExampleCEP)
    /\ rq[r].calls[2] = CallTo("service-b", "viacep", ExampleCEP)

\* What the claims call a failure of Stage 1, read off ViaCEP's answer: no
\* answer, a status other than 200, a body that does not decode, the erro
\* field set, or an empty localidade.
ViaCEPFailed(reply) ==
  \/ reply.err # ""
  \/ reply.status # 200
  \/ ~reply.decodes
  \/ reply.erro
  \/ reply.localidade = <<>>

\* The handler of service-b went on to GetTemperature.
StageTwoEntered(q) == q.opc = "temp" \/ q.tempRes # NoResult

\* C3: once ViaCEP's answer is in, service-b has answered 404 "can not find
\* zipcode" without entering Stage 2 if the answer is a failure (transport
\* error, status other than 200, erro set, empty city), and has entered
\* Stage 2 otherwise.
C3_StageOneFailureIs404 ==
  \A r \in Reqs :
    LET q == rq[r]
    IN  q.viacep # NoViaCEP
          => IF ViaCEPFailed(q.viacep)
               THEN OrchDone(q) /\ q.ow = NotFound /\ ~StageTwoEntered(q)
               ELSE StageTwoEntered(q)

C6_TransportErrorNotLeaked ==
  \A r \in Reqs :
    LET q == rq[r]
    IN  (EdgeDone(q) /\ q.hop.err # "")
          => /\ q.ew.codes = <<500>>
             /\ \A i \in DOMAIN q.ew.body :
                  ~Contains(q.ew.body[i].text, q.hop.err)

\* C7: a 200 of service-b carries the city as ViaCEP gave it (accents kept),
\* temp_C as Stage 2 obtained it (WeatherAPI's value, or 25 in test mode),
\* temp_F = temp_C * 1.8 + 32 and temp_K = temp_C + 273 (in hundredths:
\* 10 * temp_F = 18 * temp_C + 32000, temp_K = temp_C + 27300).
C7_SuccessBody ==
  \A r \in Reqs :
    LET q == rq[r]
    IN  (OrchDone(q) /\ Status(q.ow) = 200)
          => /\ q.ow.codes = <<200>>
             /\ Len(q.ow.body) = 1
             /\ q.ow.body[1].kind = "json"
             /\ LET wr == q.ow.body[1].weather
                IN  /\ wr.city = q.viacep.localidade
                    /\ wr.city # <<>>
                    /\ wr.temp_C = IF testMode THEN 2500 ELSE q.weatherapi.temp_c
                    /\ 10 * wr.temp_F = 18 * wr.temp_C + 32000
                    /\ wr.temp_K - wr.temp_C = 27300
                    /\ wr.temp_C = 0 => wr.temp_F = 3200 /\ wr.temp_K = 27300
                    /\ wr.temp_C = 10000 => wr.temp_F = 21200 /\ wr.temp_K = 37300

\* service-b answered 200 for Sao Paulo at 100 degrees: the city with its
\* a-tilde, 100, 212 and 373, after asking WeatherAPI for the city without
\* the accent.
C7_Witness ==
  \E r \in Reqs :
    /\ OrchDone(rq[r])
    /\ rq[r].ow = [codes |-> <<200>>,
                   body |-> <<JsonBody([city |-> SaoPaulo, temp_C |-> 10000,
                                        temp_F |-> 21200, temp_K |-> 37300])>>]
    /\ \E i \in CallsTo(rq[r], "weatherapi") :
         rq[r].calls[i].arg = <<83, 97, 111, 32, 80, 97, 117, 108, 111>>

\* C8: in test mode, a request whose Stage 1 resolved a city is answered 200
\* with that city and 25, 77, 298, and WeatherAPI is not called, with or
\* without WEATHER_API_KEY.
C8_TestModeFixedTemperature ==
  \A r \in Reqs :
    LET q == rq[r]
    IN  testMode
          => /\ CallsTo(q, "weatherapi") = {}
             /\ q.opc # "temp"
             /\ q.cityRes.err = ""
                  => /\ OrchDone(q)
                     /\ q.cityRes.val = q.viacep.localidade
                     /\ q.ow = [codes |-> <<200>>,
                                body |-> <<JsonBody([city |-> q.viacep.localidade,
                                                     temp_C |-> 2500,
                                                     temp_F |-> 7700,
                                                     temp_K |-> 29800])>>]

\* In test mode and without WEATHER_API_KEY, 29902555 resolved to Linhares
\* was answered {"city":"Linhares","temp_C":25,"temp_F":77,"temp_K":298}.
C8_Witness ==
  \E r \in Reqs :
    /\ testMode
    /\ WEATHER_API_KEY = ""
    /\ OrchDone(rq[r])
    /\ rq[r].oreq.body = ObjectBody([cep |-> ExampleCEP])
    /\ rq[r].ow = [codes |-> <<200>>,
                   body |-> <<JsonBody([city |-> Linhares, temp_C |-> 2500,
                                        temp_F |-> 7700, temp_K |-> 29800])>>]

\* C9: with SIMULATE_CEP_NOT_FOUND=true, a POST with a valid code to
\* service-b is answered 404 "can not find zipcode", and neither ViaCEP nor
\* WeatherAPI is called, whatever test mode and WEATHER_API_KEY are.
C9_SimulatedNotFound ==
  \A r \in Reqs :
    LET q == rq[r]
    IN  SIMULATE_CEP_NOT_FOUND = "true"
          => /\ CallsFrom(q, "service-b") = {}
             /\ q.opc \notin {"city", "temp"}
             /\ (OrchDone(q) /\ q.oreq.method = "POST" /\ HasCep(q.oreq.body)
                   /\ q.oreq.body.obj.cep \in EightDigits)
                  => q.ow = NotFound

\* With the simulation on, test mode on and a key set, a valid code was
\* answered 404 without any call of service-b.
C9_Witness ==
  \E r \in Reqs :
    /\ SIMULATE_CEP_NOT_FOUND = "true"
    /\ testMode
    /\ WEATHER_API_KEY # ""
    /\ rq[r].target = "orch"
    /\ OrchDone(rq[r])
    /\ rq[r].oreq.body = ObjectBody([cep |-> ExampleCEP])
    /\ rq[r].ow = NotFound
    /\ rq[r].calls = <<>>

C11_BadBodyIs400 ==
  \A r \in Reqs :
    LET q == rq[r]
    IN  /\ (EdgeDone(q) /\ q.method = "POST")
             => /\ q.body.kind \in {"unreadable", "malformed"}
                     => q.ew.codes = <<400>> /\ q.calls = <<>>
                /\ (q.body.kind = "object" /\ ~HasCep(q.body))
                     => q.ew = InvalidZipcode /\ q.calls = <<>>
                /\ q.body = ObjectBody([cep |-> <<>>]) => q.ew = InvalidZipcode
        /\ (OrchDone(q) /\ q.oreq.method = "POST")
             => /\ q.oreq.body.kind \in {"unreadable", "malformed"}
                     => q.ow.codes = <<400>> /\ CallsFrom(q, "service-b") = {}
                /\ (q.oreq.body.kind = "object" /\ ~HasCep(q.oreq.body))
                     => q.ow = InvalidZipcode /\ CallsFrom(q, "service-b") = {}
                /\ q.oreq.body = ObjectBody([cep |-> <<>>])
                     => q.ow = InvalidZipcode

\* service-b answered 400 to a POST whose body is not JSON.
C11_Witness ==
  \E r \in Reqs :
    /\ rq[r].target = "orch"
    /\ OrchDone(rq[r])
    /\ rq[r].oreq = [method |-> "POST", body |-> MalformedBody]
    /\ rq[r].ow.codes = <<400>>
    /\ rq[r].calls = <<>>

\* C12: a request to /health of either service, whatever its method and
\* body, is answered 200 with {"status":"ok"} and no call is made for it.
C12_HealthIs200 ==
  \A r \in Reqs :
    LET q == rq[r]
        HealthOk == [codes |-> <<200>>, body |-> <<StatusOk>>]
    IN  q.path = "/health"
          => /\ q.calls = <<>>
             /\ q.epc \in {"none", "recv", "done"}
             /\ q.opc \in {"none", "recv", "done"}
             /\ (q.target = "edge" /\ q.epc = "done")
                  => q.ew = HealthOk /\ q.opc = "none"
             /\ (q.target = "orch" /\ q.opc = "done") => q.ow = HealthOk

\* A PUT to /health of service-a whose body cannot be read was answered 200
\* {"status":"ok"}.
C12_Witness ==
  \E r \in Reqs :
    /\ rq[r].path = "/health"
    /\ rq[r].target = "edge"
    /\ rq[r].method = "PUT"
    /\ rq[r].body = UnreadableBody
    /\ rq[r].epc = "done"
    /\ rq[r].ew = [codes |-> <<200>>, body |-> <<StatusOk>>]

\* The loop of removeAccents has run.
AccentsDone == order # <<>>

\* Upper-case and lower-case letters of ASCII and Latin-1.
UpperCase == (65 .. 90) \cup ((192 .. 222) \ {215})
LowerCase == (97 .. 122) \cup ((223 .. 255) \ {247})

\* C13: removeAccents gives a result for every string; applying it to its
\* result changes nothing; the result has as many characters as the
\* argument, and each character is the argument's, or, for a key of the
\* table, the one unaccented ASCII letter of the same case the table gives
\* for it ("São Paulo" gives "Sao Paulo").
C13_RemoveAccentsIdempotent ==
  AccentsDone
    => /\ removeAccents(result) = result
       /\ mainRemoveAccents(result) = result
       /\ Len(result) = Len(word)
       /\ Cardinality(Keys) = Len(replacements)
       /\ \A i \in DOMAIN word :
            IF word[i] \in Keys
              THEN /\ \E k \in DOMAIN replacements :
                        replacements[k] = <<word[i], result[i]>>
                   /\ result[i] \in (65 .. 90) \cup (97 .. 122)
                   /\ result[i] \in UpperCase <=> word[i] \in UpperCase
                   /\ result[i] \in LowerCase <=> word[i] \in LowerCase
              ELSE result[i] = word[i]
       /\ word = SaoPaulo
            => result = <<83, 97, 111, 32, 80, 97, 117, 108, 111>>

\* "São Paulo" was turned into "Sao Paulo" with the table taken in another
\* order than that of the source.
C13_Witness ==
  /\ AccentsDone
  /\ order # Rotation(0)
  /\ word = SaoPaulo
  /\ result = <<83, 97, 111, 32, 80, 97, 117, 108, 111>>

\* The vowels, and the code points of each with acute, grave, tilde,
\* circumflex and diaeresis (Unicode: Latin-1 Supplement, and for e, i, u
\* with tilde Latin Extended Additional and Latin Extended-A).
Vowels == <<97, 101, 105, 111, 117, 65, 69, 73, 79, 85>>
WithAcute == <<225, 233, 237, 243, 250, 193, 201, 205, 211, 218>>
WithGrave == <<224, 232, 236, 242, 249, 192, 200, 204, 210, 217>>
WithTilde == <<227, 7869, 297, 245, 361, 195, 7868, 296, 213, 360>>
WithCircumflex == <<226, 234, 238, 244, 251, 194, 202, 206, 212, 219>>
WithDiaeresis == <<228, 235, 239, 246, 252, 196, 203, 207, 214, 220>>
WithCedilla == {<<231, 99>>, <<199, 67>>}

\* <<accented character, unaccented letter>> for the vowels with the given
\* marks and for c with cedilla.
Pairs(marks) ==
  {<<m[k], Vowels[k]>> : m \in marks, k \in DOMAIN Vowels} \cup WithCedilla

AllMarks == {WithAcute, WithGrave, WithTilde, WithCircumflex, WithDiaeresis}

\* removeAccents has mapped the characters of pairs to their letters and
\* left every other character as it was.
Strips(pairs) ==
  /\ Len(result) = Len(word)
  /\ \A i \in DOMAIN word :
       IF \E pr \in pairs : pr[1] = word[i]
         THEN <<word[i], result[i]>> \in pairs
         ELSE result[i] = word[i]

\* C14: removeAccents maps a, e, i, o, u of both cases with each
\* of acute, grave, tilde, circumflex and diaeresis, and c with cedilla, to
\* the unaccented letter, and leaves every other character unchanged.
C14_TableCoversEveryMark == AccentsDone => Strips(Pairs(AllMarks))

\* The calls service-b made for a request, in order.
ExternalCalls(q) == SelectSeq(q.calls, LAMBDA c : c.from = "service-b")

\* C15: the calls service-b makes for one request are a prefix of
\* <<ViaCEP, WeatherAPI>>: each is called at most once, WeatherAPI only
\* after ViaCEP answered this request with a success and a city, with that
\* city stripped of its accents as the query, and after a call failed no
\* other call follows.
C15_ExternalCallsInSequence ==
  \A r \in Reqs :
    LET q == rq[r]
        ext == ExternalCalls(q)
    IN  /\ Len(ext) <= 2
        /\ Len(ext) >= 1 => ext[1].to = "viacep"
        /\ Len(ext) = 2
             => /\ ext[2].to = "weatherapi"
                /\ ~ViaCEPFailed(q.viacep)
                /\ ext[2].arg = removeAccents(q.viacep.localidade)
        /\ (q.viacep # NoViaCEP /\ ViaCEPFailed(q.viacep)) => Len(ext) = 1
        /\ q.weatherapi # NoWeatherAPI => Len(ext) = 2 /\ q.opc = "done"

\* The handler of service-b of build impl run from the start on the request
\* of q0, alone, given the answers viacep and weatherapi to the calls it
\* makes.
OrchRun(impl, q0, viacep, weatherapi) ==
  LET s1 == IF q0.path = "/health" THEN HealthOnRequest(q0)
            ELSE OrchOnRequest(impl, q0)
      s2 == IF s1.opc = "city"
              THEN OrchOnCity(impl, [s1 EXCEPT !.viacep = viacep],
                              CityEnd(impl, viacep))
              ELSE s1
  IN  IF s2.opc = "temp"
        THEN OrchOnTemperature(impl, [s2 EXCEPT !.weatherapi = weatherapi],
                               TemperatureEnd(impl, weatherapi))
        ELSE s2

OrchAlone(q0, viacep, weatherapi) == OrchRun(orchImpl, q0, viacep, weatherapi)

\* The handler of service-a run alone on the request of q0, given what the
\* call to service-b came back with (an error, or the response of service-b
\* run alone, readable or not) and the answers to the calls of service-b.
EdgeAlone(q0, hop, viacep, weatherapi) ==
  LET s1 == IF q0.path = "/health" THEN HealthOnRequest(q0)
            ELSE EdgeOnRequest(edgeImpl, q0)
      h == IF hop.err # "" THEN hop
           ELSE HopResponse(OrchAlone(s1, viacep, weatherapi).ow, hop.readable)
  IN  IF s1.epc # "wait" THEN s1.ew
      ELSE IF edgeImpl = "cmd" THEN HandleCEPRequestTail(s1.ew, SendCEP(h))
      ELSE handleRequestTail(s1.ew, h)

\* C16: with several requests in flight, whatever the interleaving, a
\* request that has its response has the response its handler gives when it
\* runs alone on the same request with the same answers from service-b,
\* ViaCEP and WeatherAPI; and the process-wide state (the test-mode flag,
\* the environment, the build) is written by main before the first request
\* is accepted and by no handler.
C16_RequestsDoNotInterfere ==
  /\ [](\A r \in Reqs :
          LET q == rq[r]
              q0 == Arrived(q.target, q.path, q.method, q.body)
          IN  /\ phase = "boot" => q = Idle
              /\ (q.target = "orch" /\ q.opc = "done")
                   => q.ow = OrchAlone(q0, q.viacep, q.weatherapi).ow
              /\ (q.target = "edge" /\ q.epc = "done")
                   => q.ew = EdgeAlone(q0, q.hop, q.viacep, q.weatherapi))
  /\ [][phase = "serving"
          => /\ phase' = phase
             /\ testMode' = testMode
             /\ config' = config]_vars

\* Two requests were in flight at once: one is waiting for ViaCEP, the
\* other, sent to service-a, has been answered 200.
C16_Witness ==
  /\ rq["r1"].opc = "city"
  /\ rq["r2"].target = "edge"
  /\ rq["r2"].epc = "done"
  /\ rq["r2"].opc = "done"
  /\ Status(rq["r2"].ew) = 200

\* The process has ended in log.Fatal.
Fatal == phase \in {"fatal-exporter", "fatal-listen"}

\* C17: at startup, a service without ZIPKIN_URL exits before it serves
\* any request, and nothing else makes the process exit.
C17_MissingZipkinIsFatal ==
  /\ (ZIPKIN_URL = "" /\ phase # "boot") => Fatal
  /\ Fatal => ZIPKIN_URL = ""

\* C17, amended: at startup, a service whose trace exporter cannot be made
\* (ZIPKIN_URL holds no URL with scheme and host) exits before it serves
\* any request; without ZIPKIN_URL the default collector URL is used and
\* the service starts; besides that only the server failing to listen ends
\* the process, at startup too, and a process that serves never exits.
C17_ExporterFailureIsFatal ==
  /\ [](/\ phase # "boot"
             => (phase = "fatal-exporter" <=> zipkinNew(zipkinURL) # "")
        /\ ZIPKIN_URL = "" => phase # "fatal-exporter"
        /\ Fatal => \A r \in Reqs : rq[r] = Idle
        /\ phase \in {"boot", "serving", "fatal-exporter", "fatal-listen"})
  /\ [][/\ phase = "serving" => phase' = "serving"
        /\ Fatal' => phase = "boot" \/ phase' = phase]_vars

\* Without ZIPKIN_URL the services started and a request got 200.
C17_Witness ==
  /\ ZIPKIN_URL = ""
  /\ phase = "serving"
  /\ \E r \in Reqs : EdgeDone(rq[r]) /\ Status(rq[r].ew) = 200

\* The build of service-b that is not deployed.
OtherImpl == IF orchImpl = "cmd" THEN "main" ELSE "cmd"

\* C18: a request service-b has answered has the status, the body and the
\* sequence of calls to ViaCEP and WeatherAPI that the other build of
\* service-b gives for the same method and body, under the same
\* configuration and with the same answers of ViaCEP and WeatherAPI (any
\* answer of WeatherAPI where the deployed build did not call it).
C18_BuildsEquivalent ==
  \A r \in Reqs :
    LET q == rq[r]
        q0 == Arrived("orch", "/", q.oreq.method, q.oreq.body)
    IN  OrchDone(q)
          => \A w \in (IF q.weatherapi = NoWeatherAPI THEN WeatherAPIReplies
                       ELSE {q.weatherapi}) :
               LET o == OrchRun(OtherImpl, q0, q.viacep, w)
               IN  /\ o.ow = q.ow
                   /\ ExternalCalls(o) = ExternalCalls(q)

\* C19: whatever the order in which range gives the entries of the table,
\* removeAccents returns what it returns for the order of the source and
\* for that order reversed; no value of the table is a key, and no two
\* entries have the same key.
C19_OrderIndependent ==
  /\ Keys \cap Values = {}
  /\ Cardinality(Keys) = Len(replacements)
  /\ AccentsDone
       => /\ result = removeAccentsIn(word, Rotation(0))
          /\ result = removeAccentsIn(word, Backwards(Rotation(0)))

\* With the table taken backwards from its twentieth entry, a-tilde,
\* a-tilde, C-cedilla gave a, a, C.
C19_Witness ==
  /\ AccentsDone
  /\ order = Backwards(Rotation(20))
  /\ word = <<227, 227, 199>>
  /\ result = <<97, 97, 67>>

-----------------------------------------------------------------------------
(* Status and body of a response *)

\* The edge got the orchestrator's response but could not read its body.
ReadFailed(q) == EdgeDone(q) /\ q.calls # <<>> /\ q.hop.err = "" /\ ~q.hop.readable

\* C20: on every path through the main handler of either service the
\* status is set exactly once (no second WriteHeader follows a first one),
\* and when the edge fails to read the orchestrator's response body the
\* client gets 500 and not the orchestrator's status with an error text.
C20_StatusSetOnce ==
  \A r \in Reqs :
    LET q == rq[r]
    IN  /\ EdgeDone(q) => Len(q.ew.codes) = 1
        /\ OrchDone(q) => Len(q.ow.codes) = 1
        /\ ReadFailed(q) => Status(q.ew) = 500

=============================================================================
